---- MODULE Spec2Model ----
(***************************************************************************)
(* Kanban board: the Task Store (one table), the Task Service (create,     *)
(* read/filter, update, delete), the input schemas that guard it, and the  *)
(* Board Controller with its drag interaction.                             *)
(***************************************************************************)
EXTENDS Integers, Sequences, FiniteSets, TLC

\* ------------------------------------------------------------------ bounds
MaxSeq  == 2   \* values the id sequence hands out in one behaviour
MaxTime == 1   \* readings of the database clock: 0..MaxTime
MaxCalls == 3  \* calls of the Task Service made in one behaviour
MaxDrops == 1  \* update calls the Board Controller issues in one behaviour
MaxRacing == 2 \* update calls issued in one behaviour of the racing gestures
DayLen == 3    \* instants of the browser's clock in one calendar day
MaxDays == 2   \* calendar days (UTC) the clock and the due dates span

\* ------------------------------------------------------------ value domains
\* A nullable column holds NULL or Some(v).
NULL == <<>>
Some(v) == <<v>>

\* z.enum(['todo', 'in_progress', 'done']) / pgEnum('task_status', ...)
taskStatusSchema == {"todo", "in_progress", "done"}

\* Titles are sequences of characters. The columns an input may set:
Fields == {"title", "description", "due_date", "status"}

\* Ids a request may name: every id the sequence can hand out.
ReqIds == 1..MaxSeq

\* ------------------------------------------------------------------- state
VARIABLES
  store,  \* tasksTable: the rows in insertion (heap) order
  seq,    \* last value handed out by the serial sequence of tasks.id
  now,    \* the database clock, what now() reads: it never runs backwards,
          \* and two statements may read the same instant
  ret,    \* the call of the Task Service that has just returned, until its
          \* caller takes the result
  issued, \* the ids createTask has returned so far, oldest first
  calls,  \* how many calls of the Task Service have been made
  deleted, \* the ids deleteTask has confirmed as deleted
  sent,   \* the input of the returned call as its caller sent it, before
          \* the schema parsed it
  phase,  \* the Board Controller: "unmounted", or mounted and "idle" (no
          \* drag gesture), "dragging" (between dragstart and drop or
          \* dragend), "dropped" (between drop and dragend)
  tasks,  \* useState<Task[]>: the local task list
  draggedTask,    \* useState<Task | null>: the in-flight task
  dragOverColumn, \* useState<TaskStatus | null>: the highlighted column
  inflight, \* the Board Controller's calls that wait at their await, in the
            \* order they were issued
  answering, \* the place in inflight of the call the service has just
             \* answered, 0 when ret answers no call of the controller
  updateCalls, \* how many update calls the controller has issued
  ev,     \* the last event the Board Controller handled, with the state
          \* it found
  arrived, \* the update calls whose continuation has run since the list was
           \* last loaded, in the order their responses were applied
  isCreateDialogOpen, \* useState(false): the create dialog is shown
  isLoading,          \* useState(false): a create call is under way
  formData,           \* useState<CreateTaskInput>: what the form holds
  dueDate, \* the due_date of the card that is rendered: NULL or Some(instant)
  zone,    \* the offset of the browser's local time from UTC, in instants
  clock,   \* the browser's clock, what new Date() reads
  badge,   \* NULL, or Some(the two readings of the clock isOverdue took and
           \* the flag it returned)
  txn     \* the updateTask call that has run its select and not yet its
          \* update statement: NULL or Some(its input)

svars == <<store, seq, now, ret, issued, calls, deleted, sent, txn>>
dvars == <<isCreateDialogOpen, isLoading, formData>>
ovars == <<dueDate, zone, clock, badge>>
cvars == <<phase, tasks, draggedTask, dragOverColumn, inflight, answering, updateCalls, ev,
           arrived, isCreateDialogOpen, isLoading, formData, dueDate, zone, clock, badge>>
vars == <<store, seq, now, ret, issued, calls, deleted, sent, txn,
          phase, tasks, draggedTask, dragOverColumn, inflight, answering, updateCalls, ev,
          arrived, isCreateDialogOpen, isLoading, formData, dueDate, zone, clock, badge>>

\* ---------------------------------------------------------- pure functions
\* An object has the key k (its value is not undefined).
Has(input, k) == k \in DOMAIN input

\* The keys of an input besides its id.
Supplied(input) == DOMAIN input \ {"id"}

\* ------------------------------------------------------------ input schemas
\* z.string().min(1, ...): the least accepted length of a title.
MinTitleLen == 1

\* The field values the callers of this model send: between them every value
\* of every field.
Patches ==
  { [title |-> <<" ">>, description |-> NULL,      due_date |-> NULL,    status |-> "todo"],
    [title |-> <<"a">>, description |-> Some("d"), due_date |-> Some(0), status |-> "in_progress"],
    [title |-> <<"a">>, description |-> NULL,      due_date |-> Some(0), status |-> "done"] }

\* Field values the schemas reject: the empty title, a status outside the
\* enumeration.
BadPatches ==
  { [title |-> <<>>,    description |-> Some("d"), due_date |-> NULL, status |-> "todo"],
    [title |-> <<"a">>, description |-> Some("d"), due_date |-> NULL, status |-> "archived"] }

\* The object p cut down to the keys S.
Restrict(p, S) == [k \in S |-> p[k]]

\* Inputs a caller can send to createTask: status may be left out.
CreateInputs ==
  { Restrict(p, S) : p \in Patches \cup BadPatches, S \in {Fields, Fields \ {"status"}} }

\* createTaskInputSchema without .min(1): any title passes.
createTaskInputSchemaNoMin(input) ==
  { k \in {"status"} : Has(input, k) /\ input[k] \notin taskStatusSchema }

\* The paths of the issues createTaskInputSchema raises: the title has at
\* least MinTitleLen characters; a status, if present, is in the enum.
createTaskInputSchema(input) ==
  { k \in {"title"} : Len(input[k]) < MinTitleLen }
  \cup { k \in {"status"} : Has(input, k) /\ input[k] \notin taskStatusSchema }

\* What createTaskInputSchema.parse returns: status defaults to 'todo'.
createTaskInputParsed(input) ==
  [title |-> input.title,
   description |-> input.description,
   due_date |-> input.due_date,
   status |-> IF Has(input, "status") THEN input.status ELSE "todo"]

\* Inputs a caller can send to updateTask: an id and any subset of the fields.
UpdateInputs ==
  { ("id" :> i) @@ Restrict(p, S) : i \in ReqIds, p \in Patches, S \in SUBSET Fields }
  \cup
  { ("id" :> i) @@ Restrict(p, S) :
      i \in ReqIds, p \in BadPatches, S \in {{"title"}, {"status"}, {"title", "status"}} }

\* updateTaskInputSchema with z.string() for the status: any status passes.
updateTaskInputSchemaAnyStatus(input) ==
  { k \in {"title"} : Has(input, k) /\ Len(input[k]) < MinTitleLen }

\* updateTaskInputSchema without .min(1): any title passes.
updateTaskInputSchemaNoMin(input) ==
  { k \in {"status"} : Has(input, k) /\ input[k] \notin taskStatusSchema }

\* The paths of the issues updateTaskInputSchema raises: a title, if present,
\* has at least MinTitleLen characters; a status, if present, is in the enum.
updateTaskInputSchema(input) ==
  { k \in {"title"} : Has(input, k) /\ Len(input[k]) < MinTitleLen }
  \cup { k \in {"status"} : Has(input, k) /\ input[k] \notin taskStatusSchema }

\* --------------------------------------------------------------- the table
\* An insert that returns the placeholder id 0 instead of the sequence's value.
InsertRowPlaceholderId(values, id, t) ==
  [id |-> 0,
   title |-> values.title,
   description |-> values.description,
   due_date |-> values.due_date,
   status |-> IF Has(values, "status") THEN values.status ELSE "todo",
   created_at |-> t,
   updated_at |-> t]

\* INSERT INTO tasks ... RETURNING *: the id comes from the serial sequence,
\* status defaults to 'todo', created_at and updated_at default to now().
InsertRow(values, id, t) ==
  [id |-> id,
   title |-> values.title,
   description |-> values.description,
   due_date |-> values.due_date,
   status |-> IF Has(values, "status") THEN values.status ELSE "todo",
   created_at |-> t,
   updated_at |-> t]

\* An id generator that stops advancing: every insert gets the first id.
NextValStuck(s) == IF s = 0 THEN s + 1 ELSE s

\* nextval of the serial sequence behind tasks.id.
NextVal(s) == s + 1

\* The select without its WHERE clause: every row.
SelectNoWhere(tbl, id) == tbl

\* db.select().from(tasksTable).where(eq(tasksTable.id, id))
SelectById(tbl, id) == SelectSeq(tbl, LAMBDA r : r.id = id)

\* The placeholder's `input.description || null`: a description left out is
\* written as null.
updateDataOrNull(input, t) ==
  [k \in {"updated_at", "description"} \cup Supplied(input) |->
     IF k = "updated_at" THEN t
     ELSE IF Has(input, k) THEN input[k] ELSE NULL]

\* `if (input.description)` in place of `!== undefined`: an explicit null in a
\* nullable field is skipped like a field left out.
updateDataTruthy(input, t) ==
  [k \in {"updated_at"} \cup
         { f \in Supplied(input) :
             f \in {"description", "due_date"} => input[f] # NULL } |->
     IF k = "updated_at" THEN t ELSE input[k]]

\* An update object that also stamps created_at.
updateDataWithCreatedAt(input, t) ==
  [k \in {"updated_at", "created_at"} \cup Supplied(input) |->
     IF k \in {"updated_at", "created_at"} THEN t ELSE input[k]]

\* updated_at left out of the update object.
updateDataNoTimestamp(input, t) ==
  [k \in Supplied(input) |-> input[k]]

\* The object updateTask hands to .set(): updated_at always, and each field
\* of the input that is not undefined.
updateData(input, t) ==
  [k \in {"updated_at"} \cup Supplied(input) |->
     IF k = "updated_at" THEN t ELSE input[k]]

\* One row after SET: the columns named by data take data's values.
SetRow(r, data) ==
  [k \in DOMAIN r |-> IF k \in DOMAIN data THEN data[k] ELSE r[k]]

\* The update without its WHERE clause: every row is written.
UpdateNoWhere(tbl, id, data) ==
  [i \in 1..Len(tbl) |-> SetRow(tbl[i], data)]

\* db.update(tasksTable).set(data).where(eq(tasksTable.id, id)): the table after.
UpdateWhereId(tbl, id, data) ==
  [i \in 1..Len(tbl) |-> IF tbl[i].id = id THEN SetRow(tbl[i], data) ELSE tbl[i]]

\* ... .returning(): the rows the statement wrote.
Returning(tbl, id, data) == SelectById(UpdateWhereId(tbl, id, data), id)

\* The delete without its WHERE clause: no row is left.
DeleteNoWhere(tbl, id) == SelectSeq(tbl, LAMBDA r : FALSE)

\* A delete that matches no row: the table stays as it is.
DeleteNoMatch(tbl, id) == SelectSeq(tbl, LAMBDA r : TRUE)

\* DELETE FROM tasks WHERE id = ...: the table after.
DeleteWhereId(tbl, id) == SelectSeq(tbl, LAMBDA r : r.id # id)

\* ORDER BY updated_at in place of created_at.
RECURSIVE InsertSortedByUpdatedAt(_, _)
InsertSortedByUpdatedAt(sorted, r) ==
  IF sorted = <<>> THEN <<r>>
  ELSE IF sorted[Len(sorted)].updated_at <= r.updated_at THEN Append(sorted, r)
  ELSE Append(InsertSortedByUpdatedAt(SubSeq(sorted, 1, Len(sorted) - 1), r),
              sorted[Len(sorted)])

\* ORDER BY created_at ASC, rows of equal created_at in insertion order:
\* a stable insertion sort of the rows in heap order.
RECURSIVE InsertSorted(_, _)
InsertSorted(sorted, r) ==
  IF sorted = <<>> THEN <<r>>
  ELSE IF sorted[Len(sorted)].created_at <= r.created_at THEN Append(sorted, r)
  ELSE Append(InsertSorted(SubSeq(sorted, 1, Len(sorted) - 1), r), sorted[Len(sorted)])

RECURSIVE OrderByCreatedAt(_)
OrderByCreatedAt(rows) ==
  IF rows = <<>> THEN <<>>
  ELSE InsertSorted(OrderByCreatedAt(SubSeq(rows, 1, Len(rows) - 1)), rows[Len(rows)])

\* The inputs of getTasks: no filter, or a status.
GetTasksInputs == { [x \in {} |-> x] } \cup { [status |-> s] : s \in taskStatusSchema }

\* The read that ignores its status filter.
SelectTasksNoFilter(tbl, input) == OrderByCreatedAt(tbl)

\* SELECT * FROM tasks [WHERE status = ...] ORDER BY created_at
SelectTasks(tbl, input) ==
  OrderByCreatedAt(
    IF Has(input, "status")
      THEN SelectSeq(tbl, LAMBDA r : r.status = input.status)
      ELSE tbl)

\* ----------------------------------------------------------- the responses
\* A call of the Task Service that has returned: the operation, its input,
\* the table as the call found it, the outcome, the issue paths of a rejected
\* input, and the rows returned.
Response(op, input, pre, outcome, issues, rows) ==
  [op |-> op, input |-> input, pre |-> pre, outcome |-> outcome,
   issues |-> issues, rows |-> rows]

\* No call has returned a result that waits for its caller.
NoResponse == Response("none", <<>>, <<>>, "ok", {}, <<>>)

\* ------------------------------------------------------ the controller's events
\* An event the Board Controller has handled: its name, the column it was
\* fired on, the call it settled, and the in-flight task, the local list and
\* the number of update calls issued as the handler found them.
Event(name, column, call, dragged, list, nreq) ==
  [name |-> name, column |-> column, call |-> call,
   dragged |-> dragged, tasks |-> list, nreq |-> nreq]

\* No event has been handled.
NoEvent == Event("none", NULL, NULL, NULL, <<>>, 0)

\* An event that issues and settles no call: mount, dragstart, dragenter,
\* dragover, dragleave, dragend.
OtherEvent == Event("other", NULL, NULL, NULL, <<>>, updateCalls)

\* A call of the controller that waits at its await: the procedure, the
\* draggedTask its handler closed over, its input, the reply once there, and
\* its place among the update calls in the order they were issued.
Call(kind, task, input) ==
  [kind |-> kind, task |-> task, input |-> input, reply |-> NULL,
   n |-> updateCalls + 1]

\* A reply: the promise's outcome and the rows it carries.
Reply(outcome, rows) == [outcome |-> outcome, rows |-> rows]

\* The form as useState initialises it and as a successful create resets it:
\* { title: '', description: null, due_date: null, status: 'todo' }
EmptyForm ==
  [title |-> <<>>, description |-> NULL, due_date |-> NULL, status |-> "todo"]

\* The sequence q without its i-th element.
Without(q, i) == SubSeq(q, 1, i - 1) \o SubSeq(q, i + 1, Len(q))

\* -------------------------------------------------------------------- Init
\* The Task Service and the Board Controller after construction.
InitApp ==
  /\ store = <<>>
  /\ seq = 0
  /\ now = 0
  /\ ret = NoResponse
  /\ issued = <<>>
  /\ calls = 0
  /\ deleted = {}
  /\ sent = <<>>
  /\ phase = "unmounted"
  /\ tasks = <<>>
  /\ draggedTask = NULL
  /\ dragOverColumn = NULL
  /\ inflight = <<>>
  /\ answering = 0
  /\ updateCalls = 0
  /\ ev = NoEvent
  /\ arrived = <<>>
  /\ isCreateDialogOpen = FALSE
  /\ isLoading = FALSE
  /\ formData = EmptyForm
  /\ txn = NULL

\* The state after construction: no card has been rendered.
Init ==
  /\ InitApp
  /\ dueDate = NULL
  /\ zone = 0
  /\ clock = 0
  /\ badge = NULL

\* ---------------------------------------------------------------- handlers
\* The database clock advances.
Tick ==
  /\ ret.op = "none"
  /\ now < MaxTime
  /\ now' = now + 1
  /\ UNCHANGED <<store, seq, ret, issued, calls, deleted, sent>>
  /\ UNCHANGED <<txn, cvars>>

\* createTask: inserts the parsed input and returns the inserted row.
createTask(input) ==
  /\ seq < MaxSeq
  /\ LET row == InsertRow(input, NextVal(seq), now)
     IN /\ store' = Append(store, row)
        /\ seq' = NextVal(seq)
        /\ ret' = Response("createTask", input, store, "ok", {}, <<row>>)
        /\ issued' = Append(issued, row.id)
  /\ UNCHANGED <<now, deleted>>

\* updateTask: selects the row and throws when there is none; else writes
\* updated_at and each supplied field, and returns result[0].
updateTask(input) ==
  LET existingTask == SelectById(store, input.id)
  IN IF Len(existingTask) = 0
       THEN /\ ret' = Response("updateTask", input, store, "NotFoundError", {}, <<>>)
            /\ UNCHANGED <<store, seq, now, issued, deleted>>
       ELSE LET data == updateData(input, now)
                result == Returning(store, input.id, data)
            IN /\ store' = UpdateWhereId(store, input.id, data)
               /\ ret' = Response("updateTask", input, store, "ok", {},
                                  SubSeq(result, 1, 1))
               /\ UNCHANGED <<seq, now, issued, deleted>>

\* The placeholder of deleteTask: confirms whatever id it is given and
\* touches no row.
deleteTaskPlaceholder(input) ==
  /\ ret' = Response("deleteTask", input, store, "ok", {},
                     << [success |-> TRUE, id |-> input.id] >>)
  /\ deleted' = deleted \cup {input.id}
  /\ UNCHANGED <<store, seq, now, issued>>

\* deleteTask: looks the row up and throws when there is none; else removes
\* it and confirms with {success: true, id}.
deleteTask(input) ==
  IF Len(SelectById(store, input.id)) = 0
    THEN /\ ret' = Response("deleteTask", input, store, "NotFoundError", {}, <<>>)
         /\ UNCHANGED <<store, seq, now, issued, deleted>>
    ELSE /\ store' = DeleteWhereId(store, input.id)
         /\ ret' = Response("deleteTask", input, store, "ok", {},
                            << [success |-> TRUE, id |-> input.id] >>)
         /\ deleted' = deleted \cup {input.id}
         /\ UNCHANGED <<seq, now, issued>>

\* getTasks / getTasksByStatus: the rows, filtered by status when one is given.
getTasks(input) ==
  /\ ret' = Response("getTasks", input, store, "ok", {}, SelectTasks(store, input))
  /\ UNCHANGED <<store, seq, now, issued, deleted>>

\* -------------------------------------------------------------- procedures
\* A procedure whose input its schema rejects: the handler is not called.
Reject(op, input, issues) ==
  /\ ret' = Response(op, input, store, "ValidationError", issues, <<>>)
  /\ UNCHANGED <<store, seq, now, issued, deleted>>

\* createTask as callers reach it: createTaskInputSchema parses the input,
\* then the handler runs on what the schema returns.
CreateTaskProcedure(input) ==
  /\ ret.op = "none"
  /\ calls < MaxCalls
  /\ calls' = calls + 1
  /\ sent' = input
  /\ UNCHANGED <<txn, cvars>>
  /\ IF createTaskInputSchema(input) # {}
       THEN Reject("createTask", input, createTaskInputSchema(input))
       ELSE createTask(createTaskInputParsed(input))

\* updateTask as callers reach it: updateTaskInputSchema parses the input.
UpdateTaskProcedure(input) ==
  /\ ret.op = "none"
  /\ calls < MaxCalls
  /\ calls' = calls + 1
  /\ sent' = input
  /\ UNCHANGED <<txn, cvars>>
  /\ IF updateTaskInputSchema(input) # {}
       THEN Reject("updateTask", input, updateTaskInputSchema(input))
       ELSE updateTask(input)

\* deleteTask as callers reach it: deleteTaskInputSchema asks for an id.
DeleteTaskProcedure(input) ==
  /\ ret.op = "none"
  /\ calls < MaxCalls
  /\ calls' = calls + 1
  /\ sent' = input
  /\ UNCHANGED <<txn, cvars>>
  /\ deleteTask(input)

\* getTasks as callers reach it.
GetTasksProcedure(input) ==
  /\ ret.op = "none"
  /\ calls < MaxCalls
  /\ calls' = calls + 1
  /\ sent' = input
  /\ UNCHANGED <<txn, cvars>>
  /\ getTasks(input)

\* The promise of the call settles: its caller takes the result.
Resolve ==
  /\ ret.op # "none"
  /\ answering = 0
  /\ ret' = NoResponse
  /\ sent' = <<>>
  /\ UNCHANGED <<store, seq, now, issued, calls, deleted>>
  /\ UNCHANGED <<txn, cvars>>

Next ==
  \/ Tick
  \/ \E input \in CreateInputs : CreateTaskProcedure(input)
  \/ \E input \in UpdateInputs : UpdateTaskProcedure(input)
  \/ \E id \in ReqIds : DeleteTaskProcedure([id |-> id])
  \/ \E input \in GetTasksInputs : GetTasksProcedure(input)
  \/ Resolve

Spec == Init /\ [][Next]_vars

\* ------------------------------------------------------ the Board Controller
\* The input with which the tasks the board shows were created: every field
\* set, the middle column.
BoardCreateInputs == { p \in Patches : p.status = "in_progress" }

\* A task is created before the board is opened.
SeedTask(input) ==
  /\ phase = "unmounted"
  /\ CreateTaskProcedure(input)

\* The database clock advances while an update call of the board is on its
\* way to the service, the only time the board's world reads it.
BoardTick ==
  /\ \E i \in DOMAIN inflight :
       inflight[i].kind = "updateTask" /\ inflight[i].reply = NULL
  /\ Tick

\* The setTasks callback of handleDrop that overwrites every entry.
ReplaceEveryTask(prev, id, updatedTask) ==
  [i \in DOMAIN prev |-> updatedTask]

\* prev.map(task => task.id === draggedTask.id ? updatedTask : task)
ReplaceTask(prev, id, updatedTask) ==
  [i \in DOMAIN prev |-> IF prev[i].id = id THEN updatedTask ELSE prev[i]]

\* useEffect(() => { loadTasks() }): on mount loadTasks issues
\* trpc.getTasks.query() and waits for it.
loadTasks ==
  /\ phase = "unmounted"
  /\ phase' = "idle"
  /\ inflight' = Append(inflight, Call("getTasks", NULL, <<>>))
  /\ ev' = OtherEvent
  /\ UNCHANGED <<svars, arrived, dvars, ovars, tasks, draggedTask, dragOverColumn, answering, updateCalls>>

\* loadTasks after its await: setTasks(result), or the error is logged.
loadTasksSettled(i) ==
  /\ i \in DOMAIN inflight
  /\ inflight[i].kind = "getTasks"
  /\ inflight[i].reply # NULL
  /\ i # answering
  /\ tasks' = IF inflight[i].reply[1].outcome = "ok"
                THEN inflight[i].reply[1].rows ELSE tasks
  /\ inflight' = Without(inflight, i)
  /\ answering' = IF answering > i THEN answering - 1 ELSE answering
  /\ ev' = Event("loaded", NULL, Some(inflight[i]), draggedTask, tasks, updateCalls)
  /\ arrived' = IF inflight[i].reply[1].outcome = "ok" THEN <<>> ELSE arrived
  /\ UNCHANGED <<svars, dvars, ovars, phase, draggedTask, dragOverColumn, updateCalls>>

\* handleDragStart: the card's task becomes the in-flight task.
handleDragStart(task) ==
  /\ phase = "idle"
  /\ phase' = "dragging"
  /\ draggedTask' = Some(task)
  /\ ev' = OtherEvent
  /\ UNCHANGED <<svars, arrived, dvars, ovars, tasks, dragOverColumn, inflight, answering, updateCalls>>

\* A handleDragEnd that only takes the 'dragging' class off the card.
handleDragEndKeepsState ==
  /\ phase \in {"dragging", "dropped"}
  /\ phase' = "idle"
  /\ ev' = OtherEvent
  /\ UNCHANGED <<svars, arrived, dvars, ovars, tasks, draggedTask, dragOverColumn, inflight, answering,
                 updateCalls>>

\* handleDragEnd: clears the in-flight task and the highlighted column.
handleDragEnd ==
  /\ phase \in {"dragging", "dropped"}
  /\ phase' = "idle"
  /\ draggedTask' = NULL
  /\ dragOverColumn' = NULL
  /\ ev' = OtherEvent
  /\ UNCHANGED <<svars, arrived, dvars, ovars, tasks, inflight, answering, updateCalls>>

\* handleDragOver: allows the drop; no state is set.
handleDragOver ==
  /\ phase = "dragging"
  /\ ev' = OtherEvent
  /\ UNCHANGED <<svars, arrived, dvars, ovars, phase, tasks, draggedTask, dragOverColumn, inflight,
                 answering, updateCalls>>

\* handleDragEnter: the column becomes the highlighted column.
handleDragEnter(status) ==
  /\ phase = "dragging"
  /\ dragOverColumn' = Some(status)
  /\ ev' = OtherEvent
  /\ UNCHANGED <<svars, arrived, dvars, ovars, phase, tasks, draggedTask, inflight, answering, updateCalls>>

\* handleDragLeave: clears the highlighted column when the pointer is outside
\* the column's rectangle.
handleDragLeave(outside) ==
  /\ phase = "dragging"
  /\ dragOverColumn' = IF outside THEN NULL ELSE dragOverColumn
  /\ ev' = OtherEvent
  /\ UNCHANGED <<svars, arrived, dvars, ovars, phase, tasks, draggedTask, inflight, answering, updateCalls>>

\* A handleDrop that does not compare the statuses.
handleDropNoStatusCheck(newStatus) ==
  /\ phase = "dragging"
  /\ phase' = "dropped"
  /\ dragOverColumn' = NULL
  /\ ev' = Event("drop", Some(newStatus), NULL, draggedTask, tasks, updateCalls)
  /\ IF draggedTask = NULL
       THEN /\ draggedTask' = NULL
            /\ UNCHANGED <<inflight, updateCalls>>
       ELSE LET input == [id |-> draggedTask[1].id, status |-> newStatus]
            IN /\ inflight' = Append(inflight, Call("updateTask", draggedTask, input))
               /\ updateCalls' = updateCalls + 1
               /\ UNCHANGED draggedTask
  /\ UNCHANGED <<svars, arrived, dvars, ovars, tasks, answering>>

\* handleDrop up to its await: clears the highlighted column; without an
\* in-flight task, or on the column of its status, clears the in-flight task
\* and returns; else issues trpc.updateTask.mutate({id, status}).
handleDrop(newStatus) ==
  /\ phase = "dragging"
  /\ phase' = "dropped"
  /\ dragOverColumn' = NULL
  /\ ev' = Event("drop", Some(newStatus), NULL, draggedTask, tasks, updateCalls)
  /\ IF draggedTask = NULL \/ draggedTask[1].status = newStatus
       THEN /\ draggedTask' = NULL
            /\ UNCHANGED <<inflight, updateCalls>>
       ELSE LET input == [id |-> draggedTask[1].id, status |-> newStatus]
            IN /\ inflight' = Append(inflight, Call("updateTask", draggedTask, input))
               /\ updateCalls' = updateCalls + 1
               /\ UNCHANGED draggedTask
  /\ UNCHANGED <<svars, arrived, dvars, ovars, tasks, answering>>

\* A handleDrop whose catch block moves the card to the target column.
handleDropSettledMovesOnError(i) ==
  /\ i \in DOMAIN inflight
  /\ inflight[i].kind = "updateTask"
  /\ inflight[i].reply # NULL
  /\ i # answering
  /\ tasks' = IF inflight[i].reply[1].outcome = "ok"
                THEN ReplaceTask(tasks, inflight[i].task[1].id,
                                 inflight[i].reply[1].rows[1])
                ELSE [k \in DOMAIN tasks |->
                        IF tasks[k].id = inflight[i].task[1].id
                          THEN [tasks[k] EXCEPT !.status = inflight[i].input.status]
                          ELSE tasks[k]]
  /\ draggedTask' = NULL
  /\ inflight' = Without(inflight, i)
  /\ answering' = IF answering > i THEN answering - 1 ELSE answering
  /\ ev' = Event("settled", NULL, Some(inflight[i]), draggedTask, tasks, updateCalls)
  /\ arrived' = Append(arrived, inflight[i])
  /\ UNCHANGED <<svars, dvars, ovars, phase, dragOverColumn, updateCalls>>

\* A handleDrop whose continuation keeps the row of the call issued last: a
\* response is applied only if no call issued after its own has been applied.
handleDropSettledInIssueOrder(i) ==
  /\ i \in DOMAIN inflight
  /\ inflight[i].kind = "updateTask"
  /\ inflight[i].reply # NULL
  /\ i # answering
  /\ tasks' = IF /\ inflight[i].reply[1].outcome = "ok"
                 /\ \A k \in DOMAIN arrived :
                      arrived[k].input.id = inflight[i].input.id
                        => arrived[k].n < inflight[i].n
                THEN ReplaceTask(tasks, inflight[i].task[1].id,
                                 inflight[i].reply[1].rows[1])
                ELSE tasks
  /\ draggedTask' = NULL
  /\ inflight' = Without(inflight, i)
  /\ answering' = IF answering > i THEN answering - 1 ELSE answering
  /\ ev' = Event("settled", NULL, Some(inflight[i]), draggedTask, tasks, updateCalls)
  /\ arrived' = Append(arrived, inflight[i])
  /\ UNCHANGED <<svars, dvars, ovars, phase, dragOverColumn, updateCalls>>

\* handleDrop after its await: on success the entry with the dragged task's
\* id is replaced by the returned row, on failure the error is logged; in
\* both cases the in-flight task is cleared (finally).
handleDropSettled(i) ==
  /\ i \in DOMAIN inflight
  /\ inflight[i].kind = "updateTask"
  /\ inflight[i].reply # NULL
  /\ i # answering
  /\ tasks' = IF inflight[i].reply[1].outcome = "ok"
                THEN ReplaceTask(tasks, inflight[i].task[1].id,
                                 inflight[i].reply[1].rows[1])
                ELSE tasks
  /\ draggedTask' = NULL
  /\ inflight' = Without(inflight, i)
  /\ answering' = IF answering > i THEN answering - 1 ELSE answering
  /\ ev' = Event("settled", NULL, Some(inflight[i]), draggedTask, tasks, updateCalls)
  /\ arrived' = Append(arrived, inflight[i])
  /\ UNCHANGED <<svars, dvars, ovars, phase, dragOverColumn, updateCalls>>

\* The service takes a call of the controller: the procedure parses the
\* input and runs its handler.
ServeCall(i) ==
  /\ i \in DOMAIN inflight
  /\ inflight[i].reply = NULL
  /\ ret.op = "none"
  /\ answering = 0
  /\ answering' = i
  /\ CASE inflight[i].kind = "getTasks" -> getTasks(inflight[i].input)
       [] inflight[i].kind = "createTask" ->
            IF createTaskInputSchema(inflight[i].input) # {}
              THEN Reject("createTask", inflight[i].input,
                          createTaskInputSchema(inflight[i].input))
              ELSE createTask(createTaskInputParsed(inflight[i].input))
       [] inflight[i].kind = "updateTask" ->
            IF updateTaskInputSchema(inflight[i].input) # {}
              THEN Reject("updateTask", inflight[i].input,
                          updateTaskInputSchema(inflight[i].input))
              ELSE updateTask(inflight[i].input)
  /\ UNCHANGED <<calls, sent, txn, phase, tasks, draggedTask, dragOverColumn, inflight,
                 updateCalls, ev, arrived, dvars, ovars>>

\* The answer reaches the controller: the promise of the call is settled with
\* the row returned or the error thrown.
Deliver ==
  /\ ret.op # "none"
  /\ answering # 0
  /\ inflight' = [inflight EXCEPT
                    ![answering].reply =
                       Some(Reply(ret.outcome,
                                  IF ret.outcome = "ok" THEN ret.rows ELSE <<>>))]
  /\ answering' = 0
  /\ ret' = NoResponse
  /\ UNCHANGED <<store, seq, now, issued, calls, deleted, sent, txn>>
  /\ UNCHANGED <<phase, tasks, draggedTask, dragOverColumn, updateCalls, ev, arrived, dvars, ovars>>

\* The call does not reach the service: its promise is rejected.
FailCall(i) ==
  /\ i \in DOMAIN inflight
  /\ inflight[i].reply = NULL
  /\ i # answering
  /\ inflight' = [inflight EXCEPT ![i].reply = Some(Reply("TransportError", <<>>))]
  /\ UNCHANGED <<svars, arrived, dvars, ovars, phase, tasks, draggedTask, dragOverColumn, answering,
                 updateCalls, ev>>

\* A drop on the board, while the behaviour has update calls left.
BoardDrop(newStatus) ==
  /\ handleDrop(newStatus)
  /\ updateCalls' <= MaxDrops

BoardNext ==
  \/ BoardTick
  \/ \E input \in BoardCreateInputs : SeedTask(input)
  \/ Resolve
  \/ loadTasks
  \/ \E i \in DOMAIN inflight : ServeCall(i)
  \/ Deliver
  \/ \E i \in DOMAIN inflight : FailCall(i)
  \/ \E i \in DOMAIN inflight : loadTasksSettled(i)
  \/ \E i \in DOMAIN tasks : handleDragStart(tasks[i])
  \/ handleDragOver
  \/ \E status \in taskStatusSchema : handleDragEnter(status)
  \/ \E outside \in BOOLEAN : handleDragLeave(outside)
  \/ \E newStatus \in taskStatusSchema : BoardDrop(newStatus)
  \/ \E i \in DOMAIN inflight : handleDropSettled(i)
  \/ handleDragEnd

BoardSpec == Init /\ [][BoardNext]_vars

\* ------------------------------------------- updateTask, statement by statement
\* The updates the board sends: an id and a status.
StatusUpdates == { u \in UpdateInputs : DOMAIN u = {"id", "status"} }

\* result[0]: the first row, undefined (no row) when result is empty.
ResultAt0(result) == IF Len(result) = 0 THEN <<>> ELSE <<result[1]>>

\* updateTask up to the end of its first statement: the procedure parses the
\* input, the handler selects the row and throws when there is none.
updateTaskSelect(input) ==
  /\ ret.op = "none"
  /\ txn = NULL
  /\ calls < MaxCalls
  /\ calls' = calls + 1
  /\ sent' = input
  /\ UNCHANGED cvars
  /\ IF updateTaskInputSchema(input) # {}
       THEN /\ Reject("updateTask", input, updateTaskInputSchema(input))
            /\ UNCHANGED txn
       ELSE IF Len(SelectById(store, input.id)) = 0
              THEN /\ ret' = Response("updateTask", input, store, "NotFoundError",
                                      {}, <<>>)
                   /\ UNCHANGED <<store, seq, now, issued, deleted, txn>>
              ELSE /\ txn' = Some(input)
                   /\ UNCHANGED <<store, seq, now, ret, issued, deleted>>

\* updateTask from its second statement on: update ... where id ...
\* returning, then return result[0], which is undefined when no row matched.
updateTaskWrite ==
  /\ txn # NULL
  /\ ret.op = "none"
  /\ LET input == txn[1]
         data == updateData(input, now)
         result == Returning(store, input.id, data)
     IN /\ store' = UpdateWhereId(store, input.id, data)
        /\ ret' = Response("updateTask", input, store, "ok", {}, ResultAt0(result))
        /\ sent' = input
  /\ txn' = NULL
  /\ UNCHANGED <<seq, now, issued, calls, deleted>>
  /\ UNCHANGED cvars

\* The Task Service with calls that run side by side: between the two
\* statements of an updateTask, other calls are made and return.
ConcurrentNext ==
  \/ Tick
  \/ \E input \in BoardCreateInputs : CreateTaskProcedure(input)
  \/ \E input \in StatusUpdates : updateTaskSelect(input)
  \/ updateTaskWrite
  \/ \E id \in ReqIds : DeleteTaskProcedure([id |-> id])
  \/ Resolve

ConcurrentSpec == Init /\ [][ConcurrentNext]_vars

\* ------------------------------------------------------------ the create dialog
\* What the user can put into the form: a title of blanks, a full form, a
\* form without description.
FormInputs == Patches

\* <Dialog onOpenChange>: the 'Add Task' button opens the dialog.
openDialog ==
  /\ phase # "unmounted"
  /\ ~isCreateDialogOpen
  /\ isCreateDialogOpen' = TRUE
  /\ ev' = OtherEvent
  /\ UNCHANGED <<svars, phase, tasks, draggedTask, dragOverColumn, inflight, answering,
                 updateCalls, arrived, isLoading, formData, ovars>>

\* The Cancel button, Escape or a click outside: the dialog closes; the form
\* keeps what it holds.
closeDialog ==
  /\ isCreateDialogOpen
  /\ isCreateDialogOpen' = FALSE
  /\ ev' = OtherEvent
  /\ UNCHANGED <<svars, phase, tasks, draggedTask, dragOverColumn, inflight, answering,
                 updateCalls, arrived, isLoading, formData, ovars>>

\* The onChange handlers of the form's fields: setFormData(...).
setFormData(form) ==
  /\ isCreateDialogOpen
  /\ formData' = form
  /\ ev' = OtherEvent
  /\ UNCHANGED <<svars, phase, tasks, draggedTask, dragOverColumn, inflight, answering,
                 updateCalls, arrived, isCreateDialogOpen, isLoading, ovars>>

\* handleCreateTask up to its await: the form is submitted (the title input
\* is 'required', the submit button is disabled while isLoading);
\* setIsLoading(true), then trpc.createTask.mutate(formData).
handleCreateTask ==
  /\ isCreateDialogOpen
  /\ ~isLoading
  /\ formData.title # <<>>
  /\ isLoading' = TRUE
  /\ inflight' = Append(inflight, Call("createTask", NULL, formData))
  /\ ev' = OtherEvent
  /\ UNCHANGED <<svars, phase, tasks, draggedTask, dragOverColumn, answering,
                 updateCalls, arrived, isCreateDialogOpen, formData, ovars>>

\* A handleCreateTask that resets the form and closes the dialog in its
\* finally block.
handleCreateTaskSettledAlwaysResets(i) ==
  /\ i \in DOMAIN inflight
  /\ inflight[i].kind = "createTask"
  /\ inflight[i].reply # NULL
  /\ i # answering
  /\ tasks' = IF inflight[i].reply[1].outcome = "ok"
                THEN Append(tasks, inflight[i].reply[1].rows[1]) ELSE tasks
  /\ formData' = EmptyForm
  /\ isCreateDialogOpen' = FALSE
  /\ isLoading' = FALSE
  /\ inflight' = Without(inflight, i)
  /\ answering' = IF answering > i THEN answering - 1 ELSE answering
  /\ ev' = Event("created", NULL, Some(inflight[i]), draggedTask, tasks, updateCalls)
  /\ UNCHANGED <<svars, phase, draggedTask, dragOverColumn, updateCalls, arrived, ovars>>

\* handleCreateTask after its await: on success the returned task is
\* appended, the form reset and the dialog closed; on failure the error is
\* logged; in both cases setIsLoading(false) (finally).
handleCreateTaskSettled(i) ==
  /\ i \in DOMAIN inflight
  /\ inflight[i].kind = "createTask"
  /\ inflight[i].reply # NULL
  /\ i # answering
  /\ IF inflight[i].reply[1].outcome = "ok"
       THEN /\ tasks' = Append(tasks, inflight[i].reply[1].rows[1])
            /\ formData' = EmptyForm
            /\ isCreateDialogOpen' = FALSE
       ELSE UNCHANGED <<tasks, formData, isCreateDialogOpen>>
  /\ isLoading' = FALSE
  /\ inflight' = Without(inflight, i)
  /\ answering' = IF answering > i THEN answering - 1 ELSE answering
  /\ ev' = Event("created", NULL, Some(inflight[i]), draggedTask, tasks, updateCalls)
  /\ UNCHANGED <<svars, phase, draggedTask, dragOverColumn, updateCalls, arrived, ovars>>

\* The board with its create dialog: tasks may exist before the board is
\* opened; the load of the mount and the create calls of the dialog are
\* answered, or fail, in any order.
DialogNext ==
  \/ \E input \in BoardCreateInputs : SeedTask(input)
  \/ Resolve
  \/ loadTasks
  \/ \E i \in DOMAIN inflight : ServeCall(i)
  \/ Deliver
  \/ \E i \in DOMAIN inflight : FailCall(i)
  \/ \E i \in DOMAIN inflight : loadTasksSettled(i)
  \/ openDialog
  \/ closeDialog
  \/ \E form \in FormInputs : setFormData(form)
  \/ handleCreateTask
  \/ \E i \in DOMAIN inflight : handleCreateTaskSettled(i)

DialogSpec == Init /\ [][DialogNext]_vars

\* ------------------------------------------------------------ the overdue badge
\* Instants of the clock, counted from the start of UTC day 0.
Instants == 0..(MaxDays * DayLen - 1)

\* The offsets of local time: less than a day.
Zones == 0..(DayLen - 1)

\* Date.prototype.toDateString(): the calendar day of the instant in local
\* time; the time of day is dropped.
toDateString(t, offset) == (t + offset) \div DayLen

\* An isOverdue that compares the instants only.
isOverdueByInstant(due, first, second, offset) ==
  IF due = NULL THEN FALSE ELSE due[1] < first

\* isOverdue: false without a due date; else new Date(dueDate) < new Date()
\* and new Date().toDateString() !== new Date(dueDate).toDateString(). The
\* clock is read once for each of the two new Date().
isOverdue(due, first, second, offset) ==
  IF due = NULL
    THEN FALSE
    ELSE /\ due[1] < first
         /\ toDateString(second, offset) # toDateString(due[1], offset)

\* A card is rendered: isOverdue(task.due_date) reads the clock twice, the
\* second time no earlier than the first.
TaskCard ==
  /\ badge = NULL
  /\ \E second \in { t \in Instants : t >= clock } :
       /\ badge' = Some([first |-> clock, second |-> second,
                         overdue |-> isOverdue(dueDate, clock, second, zone)])
       /\ clock' = second
  /\ UNCHANGED <<svars, phase, tasks, draggedTask, dragOverColumn, inflight, answering,
                 updateCalls, ev, arrived, dvars, dueDate, zone>>

\* Time passes and the board is rendered again.
ClockTick ==
  /\ badge # NULL
  /\ clock + 1 \in Instants
  /\ clock' = clock + 1
  /\ badge' = NULL
  /\ UNCHANGED <<svars, phase, tasks, draggedTask, dragOverColumn, inflight, answering,
                 updateCalls, ev, arrived, dvars, dueDate, zone>>

\* A card with any due date, in any time zone, at any time.
OverdueInit ==
  /\ InitApp
  /\ dueDate \in {NULL} \cup { Some(t) : t \in Instants }
  /\ zone \in Zones
  /\ clock \in Instants
  /\ badge = NULL

OverdueNext ==
  \/ TaskCard
  \/ ClockTick

OverdueSpec == OverdueInit /\ [][OverdueNext]_vars

\* ------------------------------------------------ gestures that race each other
\* A drop of the gestures that race, while the behaviour has update calls left.
RacingDrop(newStatus) ==
  /\ handleDrop(newStatus)
  /\ updateCalls' <= MaxRacing

\* The board with several update calls under way at once: tasks are created,
\* the board is opened, and gestures follow each other while the calls of the
\* earlier ones are answered, fail, or wait. The highlighted column, which no
\* call reads, is left out.
RacingNext ==
  \/ \E input \in BoardCreateInputs : SeedTask(input)
  \/ Resolve
  \/ loadTasks
  \/ \E i \in DOMAIN inflight : ServeCall(i)
  \/ Deliver
  \/ \E i \in DOMAIN inflight : FailCall(i)
  \/ \E i \in DOMAIN inflight : loadTasksSettled(i)
  \/ \E i \in DOMAIN tasks : handleDragStart(tasks[i])
  \/ \E newStatus \in taskStatusSchema : RacingDrop(newStatus)
  \/ \E i \in DOMAIN inflight : handleDropSettled(i)
  \/ handleDragEnd

RacingSpec == Init /\ [][RacingNext]_vars

\* The browser ends every drag gesture: dragend is fired after a drop, after a
\* drop outside the columns and after a cancelled drag.
BoardLive == Init /\ [][BoardNext]_vars /\ WF_vars(handleDragEnd)

\* ------------------------------------------------------------------ claims
\* What the claims read off a returned call.
IdsOf(tbl) == { tbl[i].id : i \in DOMAIN tbl }
RowOf(tbl, id) == tbl[CHOOSE i \in DOMAIN tbl : tbl[i].id = id]
UpdateOk == ret.op = "updateTask" /\ ret.outcome = "ok"
CreateOk == ret.op = "createTask" /\ ret.outcome = "ok"
OldRow == RowOf(ret.pre, ret.input.id)
NewRow == RowOf(store, ret.input.id)
Range(rows) == { rows[i] : i \in DOMAIN rows }

\* A title after trimming: leading and trailing blanks dropped.
RECURSIVE TrimLeft(_)
TrimLeft(s) == IF s # <<>> /\ Head(s) = " " THEN TrimLeft(Tail(s)) ELSE s

RECURSIVE TrimRight(_)
TrimRight(s) ==
  IF s # <<>> /\ s[Len(s)] = " " THEN TrimRight(SubSeq(s, 1, Len(s) - 1)) ELSE s

Trim(s) == TrimRight(TrimLeft(s))

\* C1: an updateTask whose id matches no stored row fails, with the not-found
\* error whenever its input passes the schema, returns no row, and leaves the
\* table exactly as it found it.
C1_UpdateMissingIdFails ==
  (ret.op = "updateTask" /\ ret.input.id \notin IdsOf(ret.pre)) =>
    /\ ret.outcome # "ok"
    /\ ret.issues = {} => ret.outcome = "NotFoundError"
    /\ ret.rows = <<>>
    /\ store = ret.pre

C1_Witness ==
  /\ ret.op = "updateTask"
  /\ ret.outcome = "NotFoundError"
  /\ ret.pre # <<>>
  /\ Supplied(ret.input) # {}

\* C2: after a successful updateTask, every field the input does not supply
\* has, in the returned row and in the stored row, the value it had before.
C2_UnsuppliedFieldsKept ==
  UpdateOk =>
    /\ ret.input.id \in IdsOf(ret.pre)
    /\ Len(ret.rows) = 1
    /\ \A k \in Fields \ Supplied(ret.input) :
         /\ NewRow[k] = OldRow[k]
         /\ ret.rows[1][k] = OldRow[k]

C2_Witness ==
  /\ UpdateOk
  /\ Supplied(ret.input) \notin {{}, Fields}
  /\ \A k \in Supplied(ret.input) : NewRow[k] # OldRow[k]

\* C3: for description and due_date, a field left out keeps the stored value,
\* an explicit null stores null, a value overwrites; so on a stored non-null
\* value leaving the field out and sending null differ.
C3_NullableTriState ==
  UpdateOk =>
    \A k \in {"description", "due_date"} :
      /\ ~Has(ret.input, k) => NewRow[k] = OldRow[k]
      /\ (Has(ret.input, k) /\ ret.input[k] = NULL) =>
           (NewRow[k] = NULL /\ ret.rows[1][k] = NULL)
      /\ (Has(ret.input, k) /\ ret.input[k] # NULL) =>
           (NewRow[k] = ret.input[k] /\ ret.rows[1][k] = ret.input[k])

C3_Witness ==
  /\ UpdateOk
  /\ Has(ret.input, "description") /\ ret.input.description = NULL
  /\ OldRow.description # NULL /\ NewRow.description = NULL
  /\ ~Has(ret.input, "due_date") /\ NewRow.due_date # NULL

C5_OtherRowsUntouched ==
  UpdateOk =>
    /\ Len(store) = Len(ret.pre)
    /\ \A i \in DOMAIN ret.pre :
         ret.pre[i].id # ret.input.id => store[i] = ret.pre[i]
    /\ Cardinality({ i \in DOMAIN ret.pre : store[i] # ret.pre[i] }) <= 1

C5_Witness ==
  /\ UpdateOk
  /\ Len(ret.pre) >= 2
  /\ NewRow # OldRow
  /\ \E i \in DOMAIN ret.pre : ret.pre[i].id = ret.input.id + 1

C9_EmptyTitleUpdateRejected ==
  (ret.op = "updateTask" /\ Has(ret.input, "title") /\ ret.input.title = <<>>) =>
    /\ ret.outcome = "ValidationError"
    /\ "title" \in ret.issues
    /\ ret.rows = <<>>
    /\ store = ret.pre

C9_Witness ==
  /\ ret.op = "updateTask"
  /\ ret.outcome = "ValidationError"
  /\ Has(ret.input, "title") /\ ret.input.title = <<>>
  /\ ret.input.id \in IdsOf(store)
  /\ RowOf(store, ret.input.id).updated_at < now

DeleteOk == ret.op = "deleteTask" /\ ret.outcome = "ok"
IdSeq(rows) == [i \in DOMAIN rows |-> rows[i].id]
\* The place of an id in the order in which createTask inserted the rows.
InsertionIndex(id) == CHOOSE i \in DOMAIN issued : issued[i] = id

\* created_at ascending, rows of equal created_at in insertion order.
OrderedByCreation(rows) ==
  \A i, j \in DOMAIN rows :
    i < j =>
      /\ rows[i].created_at <= rows[j].created_at
      /\ rows[i].created_at = rows[j].created_at =>
           InsertionIndex(rows[i].id) < InsertionIndex(rows[j].id)

ThisCallDeleted == DeleteOk /\ ret.input.id \in IdsOf(ret.pre)
\* The ids deleteTask had confirmed before the returned call was made.
DeletedBefore == IF ThisCallDeleted THEN deleted \ {ret.input.id} ELSE deleted

C16_CreatedAtAndIdFixed ==
  /\ \A i \in DOMAIN store : store[i].updated_at >= store[i].created_at
  /\ \A i \in DOMAIN store, j \in DOMAIN ret.pre :
       store[i].id = ret.pre[j].id => store[i].created_at = ret.pre[j].created_at
  /\ ret.op = "updateTask" =>
       /\ IdSeq(store) = IdSeq(ret.pre)
       /\ \A i \in DOMAIN ret.pre : store[i].created_at = ret.pre[i].created_at
       /\ ret.rows # <<>> =>
            /\ ret.rows[1].id = ret.input.id
            /\ ret.rows[1].created_at = OldRow.created_at

C16_Witness ==
  /\ UpdateOk
  /\ Supplied(ret.input) = Fields
  /\ NewRow.updated_at > NewRow.created_at
  /\ NewRow.created_at = OldRow.created_at

\* ------------------------------------------------- claims on the controller
\* What the claims read off the controller's last event.
DropEvent == ev.name = "drop" /\ ev.dragged # NULL
SettledEvent == ev.name = "settled" /\ ev.call[1].kind = "updateTask"
\* The status the local list held for the task of that id.
LocalStatusIs(list, id, status) ==
  \E k \in DOMAIN list : list[k].id = id /\ list[k].status = status
\* The drop was on the column of the in-flight task's status.
SameColumnDrop ==
  /\ DropEvent
  /\ ev.dragged[1].status = ev.column[1]
  /\ LocalStatusIs(ev.tasks, ev.dragged[1].id, ev.column[1])
\* The drop was on a column of another status.
OtherColumnDrop == DropEvent /\ ev.dragged[1].status # ev.column[1]
\* The update calls that wait for their reply or for their continuation.
OutstandingUpdates == SelectSeq(inflight, LAMBDA c : c.kind = "updateTask")

\* C17: a drop on the column of the in-flight task's status issues no update
\* call, leaves the local list as it was and ends with no in-flight task and
\* no highlighted column.
C17_SameColumnDropIsNoOp ==
  /\ SameColumnDrop =>
       /\ updateCalls = ev.nreq
       /\ tasks = ev.tasks
       /\ draggedTask = NULL
       /\ dragOverColumn = NULL
  /\ DropEvent => LocalStatusIs(ev.tasks, ev.dragged[1].id, ev.dragged[1].status)

C17_Witness ==
  /\ SameColumnDrop
  /\ Len(tasks) >= 2
  /\ updateCalls > 0
  /\ ev.dragged[1].status # "todo"

\* C18: a drop on a column of another status issues exactly one updateTask
\* call, with the task's id and the column's status and nothing else, and
\* leaves the local list alone until the call settles; when the call
\* succeeds, the local entry with that id becomes the returned row and every
\* other entry stays; no other event issues an update call.
C18_DropIssuesOneStatusUpdate ==
  /\ OtherColumnDrop =>
       /\ updateCalls = ev.nreq + 1
       /\ inflight # <<>>
       /\ inflight[Len(inflight)].kind = "updateTask"
       /\ inflight[Len(inflight)].input =
            [id |-> ev.dragged[1].id, status |-> ev.column[1]]
       /\ DOMAIN inflight[Len(inflight)].input = {"id", "status"}
       /\ tasks = ev.tasks
  /\ ev.name # "drop" => updateCalls = ev.nreq
  /\ (SettledEvent /\ ev.call[1].reply[1].outcome = "ok") =>
       /\ Len(tasks) = Len(ev.tasks)
       /\ \A k \in DOMAIN ev.tasks :
            tasks[k] = IF ev.tasks[k].id = ev.call[1].input.id
                         THEN ev.call[1].reply[1].rows[1]
                         ELSE ev.tasks[k]
       /\ ev.call[1].reply[1].rows[1].id = ev.call[1].input.id
       /\ ev.call[1].reply[1].rows[1].status = ev.call[1].input.status

C18_Witness ==
  /\ SettledEvent
  /\ ev.call[1].reply[1].outcome = "ok"
  /\ Len(tasks) >= 2
  /\ \E k \in DOMAIN tasks :
       /\ tasks[k].id = ev.call[1].input.id
       /\ tasks[k].status # ev.tasks[k].status
       /\ tasks[k].updated_at > ev.tasks[k].updated_at

\* C19: when the update call of a drop fails, the local list is what it was,
\* no further update call is issued, and no task is in flight.
C19_FailedUpdateChangesNothing ==
  (SettledEvent /\ ev.call[1].reply[1].outcome # "ok") =>
    /\ tasks = ev.tasks
    /\ updateCalls = ev.nreq
    /\ Len(OutstandingUpdates) < updateCalls
    /\ draggedTask = NULL

C19_Witness ==
  /\ SettledEvent
  /\ ev.call[1].reply[1].outcome # "ok"
  /\ Len(ev.tasks) >= 2
  /\ LocalStatusIs(tasks, ev.call[1].input.id, ev.call[1].task[1].status)
  /\ ev.call[1].task[1].status # ev.call[1].input.status

\* C20: once a gesture has ended the controller holds no in-flight task and
\* no highlighted column, and every gesture ends: a drag that has started,
\* with a drop on a column, a drop elsewhere or no drop, leads to the idle
\* controller with both cleared.
C20_EveryGestureReturnsToIdle ==
  /\ [](phase = "idle" => (draggedTask = NULL /\ dragOverColumn = NULL))
  /\ (phase \in {"dragging", "dropped"}) ~>
       (phase = "idle" /\ draggedTask = NULL /\ dragOverColumn = NULL)

C20_Witness ==
  /\ phase = "idle"
  /\ draggedTask = NULL
  /\ OutstandingUpdates # <<>>
  /\ ev.name = "other"

\* The ids the outstanding update calls name, one per call.
OutstandingIds == [i \in DOMAIN OutstandingUpdates |-> OutstandingUpdates[i].input.id]

\* C21: for any task id at most one update call issued by a drop is
\* outstanding at a time: no two calls that wait at their await name the
\* same id.
C21_OneOutstandingUpdatePerTask ==
  \A i, j \in DOMAIN OutstandingIds :
    OutstandingIds[i] = OutstandingIds[j] => i = j

\* The claim's reading of the flag with the clock at t: a due date is set and
\* its calendar day is strictly earlier than the day of t.
DueBeforeDayOf(t) ==
  /\ dueDate # NULL
  /\ toDateString(dueDate[1], zone) < toDateString(t, zone)

\* C22: isOverdue is true exactly when a due date is set and falls on a
\* calendar day strictly earlier than the current day: never without a due
\* date, never for a due date on the current day whatever its time of day.
\* isOverdue reads the clock twice; the flag is set whenever the due date's
\* day is before the day of the first reading, only when it is before the day
\* of the second, and so exactly as claimed unless midnight falls between
\* the two readings.
C22_OverdueIffEarlierDay ==
  badge # NULL =>
    LET b == badge[1]
    IN /\ DueBeforeDayOf(b.first) => b.overdue
       /\ b.overdue => DueBeforeDayOf(b.second)
       /\ toDateString(b.first, zone) = toDateString(b.second, zone)
            => (b.overdue <=> DueBeforeDayOf(b.second))
       /\ dueDate = NULL => ~b.overdue
       /\ (dueDate # NULL
            /\ toDateString(dueDate[1], zone) = toDateString(b.second, zone))
            => ~b.overdue

\* A card whose due date is earlier on the current day is rendered without
\* the flag, in a time zone away from UTC.
C22_Witness ==
  /\ badge # NULL
  /\ dueDate # NULL
  /\ zone # 0
  /\ dueDate[1] < badge[1].first
  /\ toDateString(dueDate[1], zone) = toDateString(badge[1].second, zone)
  /\ ~badge[1].overdue

\* C23: a drag-enter records its column as the drop target only when a task
\* is in flight, and in every reachable state a highlighted drop target
\* implies an in-flight task.
C23_HighlightOnlyWhileInFlight ==
  [][/\ (dragOverColumn' # NULL /\ dragOverColumn' # dragOverColumn)
          => draggedTask # NULL
     /\ dragOverColumn' # NULL => draggedTask' # NULL]_vars

\* C26: the in-flight task a gesture's dragstart recorded is cleared only by
\* that gesture's own drop or dragend: the continuation of an update call
\* that settles while a later gesture is still dragging leaves the in-flight
\* task as it found it, and so every drop finds the task its gesture picked up.
C26_EarlierCallKeepsLaterGesture ==
  /\ (SettledEvent /\ phase = "dragging" /\ ev.dragged # NULL)
       => draggedTask = ev.dragged
  /\ ev.name = "drop" => ev.dragged # NULL

\* The successful update responses for the id that have been applied, in the
\* order they arrived.
Applied(id) ==
  SelectSeq(arrived, LAMBDA c : c.input.id = id /\ c.reply[1].outcome = "ok")

\* C24: the results of the update calls are applied in the order their
\* responses arrive, not the order the calls were issued: the local copy of a
\* task is the row carried by the successful response that arrived last for
\* its id, at every moment and so once all responses have arrived.
C24_LastArrivalWins ==
  \A id \in IdsOf(tasks) :
    Applied(id) # <<>>
      => RowOf(tasks, id) = Applied(id)[Len(Applied(id))].reply[1].rows[1]

\* Two update calls for one task were outstanding together, both responses
\* have arrived, the call issued first was answered last with a row that
\* differs from the other's, and no update call is outstanding.
C24_Witness ==
  /\ OutstandingUpdates = <<>>
  /\ \E id \in IdsOf(tasks) :
       /\ Len(Applied(id)) = 2
       /\ Applied(id)[2].n < Applied(id)[1].n
       /\ Applied(id)[2].reply[1].rows[1] # Applied(id)[1].reply[1].rows[1]
       /\ Applied(id)[2].reply[1].rows[1].status
            # Applied(id)[1].reply[1].rows[1].status

\* The create call that waits at its await.
CreateCalls == SelectSeq(inflight, LAMBDA c : c.kind = "createTask")

\* The continuation of handleCreateTask runs in this step.
CreateSettles == Len(CreateCalls) = 1 /\ inflight' = SelectSeq(inflight, LAMBDA c : c.kind # "createTask")

\* C25: when the create call fails, the local list is unchanged, the dialog
\* stays as it is (open), the form holds what the user put in, and the
\* loading flag is cleared; when it succeeds, the returned task is appended to
\* the list, the form is reset to its initial values and the dialog closed.
C25_CreateFailureKeepsForm ==
  [][CreateSettles =>
       /\ isLoading /\ ~isLoading'
       /\ IF CreateCalls[1].reply[1].outcome = "ok"
            THEN /\ tasks' = Append(tasks, CreateCalls[1].reply[1].rows[1])
                 /\ formData' = EmptyForm
                 /\ ~isCreateDialogOpen'
            ELSE /\ tasks' = tasks
                 /\ formData' = formData
                 /\ isCreateDialogOpen' = isCreateDialogOpen]_vars

\* A create call has failed: the dialog is open, the form holds the input
\* that was sent, the list is as it was and nothing is loading.
C25_Witness ==
  /\ ev.name = "created"
  /\ ev.call[1].reply[1].outcome # "ok"
  /\ isCreateDialogOpen
  /\ formData = ev.call[1].input
  /\ formData # EmptyForm
  /\ tasks = ev.tasks
  /\ tasks # <<>>
  /\ ~isLoading

====
